---- MODULE Spec2Model ----
(***************************************************************************)
(* A model of the ray-tracing core of src/lib.rs: the vector algebra, the  *)
(* sphere and hit-list intersection, the three materials and the recursive *)
(* Ray::color.                                                             *)
(*                                                                         *)
(* f64 values are modelled as exact rationals [n, d] in lowest terms with  *)
(* d > 0; f64::INFINITY is the pair 1/0.  f64::sqrt is exact on squares of *)
(* rationals, and the operations of the model are only started on inputs   *)
(* whose square roots are rational (see Exact below).  Ray directions are  *)
(* non-zero, the precondition of unit_vector.                              *)
(***************************************************************************)
EXTENDS Integers, Sequences, FiniteSets, TLC

----------------------------------------------------------------------------
(* f64 as exact rationals *)

RECURSIVE GCD(_, _)
GCD(a, b) == IF b = 0 THEN a ELSE GCD(b, a % b)

IAbs(i) == IF i < 0 THEN 0 - i ELSE i

\* the rational n/d, d # 0, in lowest terms with a positive denominator
Rat(n, d) ==
    LET g == GCD(IAbs(n), IAbs(d))
        s == IF d < 0 THEN 0 - 1 ELSE 1
    IN  [n |-> s * (n \div g), d |-> s * (d \div g)]

R(i) == [n |-> i, d |-> 1]

INF == [n |-> 1, d |-> 0]

\* sums over the least common denominator, which keeps the integers small
LCD(a, b) == IF a.d = 0 \/ b.d = 0 THEN 0 ELSE (a.d \div GCD(a.d, b.d)) * b.d

RAdd(a, b) ==
    LET l == LCD(a, b)
    IN  IF l = 0 THEN Rat(a.n * b.d + b.n * a.d, a.d * b.d)
        ELSE Rat(a.n * (l \div a.d) + b.n * (l \div b.d), l)

RSub(a, b) == RAdd(a, [n |-> 0 - b.n, d |-> b.d])
RMul(a, b) == Rat(a.n * b.n, a.d * b.d)
RDiv(a, b) == Rat(a.n * b.d, a.d * b.n)
RNeg(a)    == [n |-> 0 - a.n, d |-> a.d]
RAbs(a)    == [n |-> IAbs(a.n), d |-> a.d]

\* an/ad < bn/bd for ad, bd > 0, by integer parts and then by the
\* reciprocals of the fractional parts (no product is formed)
RECURSIVE FracLt(_, _, _, _)
FracLt(an, ad, bn, bd) ==
    LET fa == an \div ad
        fb == bn \div bd
        ra == an % ad
        rb == bn % bd
    IN  IF fa # fb THEN fa < fb
        ELSE IF ra = 0 THEN rb > 0
        ELSE IF rb = 0 THEN FALSE
        ELSE FracLt(bd, rb, ad, ra)

\* the f64 comparison a < b; INF is above every finite value
RLt(a, b) ==
    IF a.d = 0 THEN FALSE
    ELSE IF b.d = 0 THEN TRUE
    ELSE FracLt(a.n, a.d, b.n, b.d)

RLe(a, b) == ~RLt(b, a)
RGt(a, b) == RLt(b, a)

RMin(a, b) == IF RLt(b, a) THEN b ELSE a

\* floor of the square root of a natural number
\* (by bisection: lo * lo <= n < hi * hi)
RECURSIVE ISqrtIn(_, _, _)
ISqrtIn(n, lo, hi) ==
    IF hi - lo <= 1 THEN lo
    ELSE LET mid == (lo + hi) \div 2
         IN  IF mid * mid <= n THEN ISqrtIn(n, mid, hi) ELSE ISqrtIn(n, lo, mid)

ISqrt(n) == ISqrtIn(n, 0, IF n < 46340 THEN n + 1 ELSE 46341)

IsSquare(a) == /\ a.n >= 0
               /\ ISqrt(a.n) * ISqrt(a.n) = a.n
               /\ ISqrt(a.d) * ISqrt(a.d) = a.d

\* f64::sqrt, exact when IsSquare(a)
Sqrt(a) == [n |-> ISqrt(a.n), d |-> ISqrt(a.d)]

----------------------------------------------------------------------------
(* Vec3 *)

Vec3(x, y, z) == [x |-> x, y |-> y, z |-> z]

V(i, j, k) == Vec3(R(i), R(j), R(k))

COLOR_BLACK == V(0, 0, 0)
COLOR_WHITE == V(1, 1, 1)

VAdd(u, v) == Vec3(RAdd(u.x, v.x), RAdd(u.y, v.y), RAdd(u.z, v.z))
VSub(u, v) == Vec3(RSub(u.x, v.x), RSub(u.y, v.y), RSub(u.z, v.z))
VScale(v, f) == Vec3(RMul(v.x, f), RMul(v.y, f), RMul(v.z, f))
VMul(u, v) == Vec3(RMul(u.x, v.x), RMul(u.y, v.y), RMul(u.z, v.z))
VDiv(v, f) == VScale(v, RDiv(R(1), f))
VNeg(v) == Vec3(RMul(v.x, R(0 - 1)), RMul(v.y, R(0 - 1)), RMul(v.z, R(0 - 1)))

dot(u, v) == RAdd(RAdd(RMul(u.x, v.x), RMul(u.y, v.y)), RMul(u.z, v.z))

length_squared(v) == RAdd(RAdd(RMul(v.x, v.x), RMul(v.y, v.y)), RMul(v.z, v.z))

length(v) == Sqrt(length_squared(v))

unit_vector(v) == VDiv(v, length(v))

near_zero(v) ==
    LET s == [n |-> 1, d |-> 100000000]
    IN  RLt(RAbs(v.x), s) /\ RLt(RAbs(v.y), s) /\ RLt(RAbs(v.z), s)

reflect(v, n) == VSub(v, VScale(VScale(n, R(2)), dot(v, n)))

refract(Rv, n, etai_over_etat) ==
    LET cos_theta == RMin(dot(VNeg(Rv), n), R(1))
        r_out_perp == VScale(VAdd(Rv, VScale(n, cos_theta)), etai_over_etat)
        r_out_parallel ==
            VScale(n, RNeg(Sqrt(RAbs(RSub(R(1), length_squared(r_out_perp))))))
    IN  VAdd(r_out_perp, r_out_parallel)

----------------------------------------------------------------------------
(* Ray, HitRecord, Sphere, HitList *)

Ray(orig, dir) == [orig |-> orig, dir |-> dir]

Ray_at(r, t) == VAdd(r.orig, VScale(r.dir, t))

\* Option<T>: None is <<>>, Some(x) is <<x>>
None == <<>>
Some(x) == <<x>>
IsSome(o) == o # <<>>
Unwrap(o) == o[1]

\* variant: the normal is turned against the ray on a back-face hit
with_face_normal_flipped(self, r, outward_normal) ==
    LET front_face == RLt(dot(r.dir, outward_normal), R(0))
        normal == IF front_face THEN outward_normal ELSE VNeg(outward_normal)
    IN  [p |-> self.p, normal |-> normal, t |-> self.t,
         front_face |-> front_face, mat_ptr |-> self.mat_ptr]

with_face_normal(self, r, outward_normal) ==
    LET front_face == RLt(dot(r.dir, outward_normal), R(0))
        normal == IF self.front_face THEN outward_normal ELSE outward_normal
    IN  [p |-> self.p, normal |-> normal, t |-> self.t,
         front_face |-> front_face, mat_ptr |-> self.mat_ptr]

Discriminant(self, ray) ==
    LET oc == VSub(ray.orig, self.center)
        a == dot(ray.dir, ray.dir)
        half_b == dot(oc, ray.dir)
        c == RSub(dot(oc, oc), RMul(self.radius, self.radius))
    IN  RSub(RMul(half_b, half_b), RMul(a, c))

\* (-half_b - sqrtd) / a  and  (-half_b + sqrtd) / a
FirstRoot(self, ray) ==
    RDiv(RSub(RNeg(dot(VSub(ray.orig, self.center), ray.dir)),
              Sqrt(Discriminant(self, ray))),
         dot(ray.dir, ray.dir))

SecondRoot(self, ray) ==
    RDiv(RAdd(RNeg(dot(VSub(ray.orig, self.center), ray.dir)),
              Sqrt(Discriminant(self, ray))),
         dot(ray.dir, ray.dir))

OutOfRange(root, t_min, t_max) == RLt(root, t_min) \/ RLt(t_max, root)

\* variant: the second root is tried before the first
SelectRoot_secondFirst(root1, root2, t_min, t_max) ==
    IF OutOfRange(root2, t_min, t_max)
    THEN IF OutOfRange(root1, t_min, t_max) THEN None ELSE Some(root1)
    ELSE Some(root2)

\* lines 402-409: the first root unless it is out of range, then the second
SelectRoot(root1, root2, t_min, t_max) ==
    IF OutOfRange(root1, t_min, t_max)
    THEN IF OutOfRange(root2, t_min, t_max) THEN None ELSE Some(root2)
    ELSE Some(root1)

\* lines 411-422: the record at the root t
RecordAt(self, ray, t, p) ==
    with_face_normal([t |-> t, p |-> p,
                      normal |-> VDiv(VSub(p, self.center), self.radius),
                      front_face |-> FALSE, mat_ptr |-> self.mat_ptr],
                     ray, VDiv(VSub(p, self.center), self.radius))

RecordOf(self, ray, root) ==
    IF IsSome(root)
    THEN Some(RecordAt(self, ray, Unwrap(root), Ray_at(ray, Unwrap(root))))
    ELSE None

Sphere_hit(self, ray, t_min, t_max) ==
    IF RLt(Discriminant(self, ray), R(0)) THEN None
    ELSE RecordOf(self, ray,
                  SelectRoot(FirstRoot(self, ray), SecondRoot(self, ray),
                             t_min, t_max))

\* variant: two records are compared the wrong way round
CompareGreater_reversed(x, y) ==
    IF ~IsSome(x) /\ ~IsSome(y) THEN TRUE
    ELSE IF IsSome(x) /\ ~IsSome(y) THEN FALSE
    ELSE IF ~IsSome(x) /\ IsSome(y) THEN TRUE
    ELSE RLt(Unwrap(x).t, Unwrap(y).t)

\* the closure handed to min_by: TRUE when compare(x, y) is Ordering::Greater
\* (total_cmp on finite values is the numeric order)
CompareGreater(x, y) ==
    IF ~IsSome(x) /\ ~IsSome(y) THEN TRUE
    ELSE IF IsSome(x) /\ ~IsSome(y) THEN FALSE
    ELSE IF ~IsSome(x) /\ IsSome(y) THEN TRUE
    ELSE RLt(Unwrap(y).t, Unwrap(x).t)

\* Iterator::min_by as a left fold: the accumulator is replaced only when
\* the comparison says Greater
RECURSIVE MinByFrom(_, _, _)
MinByFrom(hits, acc, i) ==
    IF i > Len(hits) THEN acc
    ELSE MinByFrom(hits, IF CompareGreater(acc, hits[i]) THEN hits[i] ELSE acc, i + 1)

MinBy(hits) == IF Len(hits) = 0 THEN None ELSE Some(MinByFrom(hits, hits[1], 2))

\* the mapped iterator of HitList::hit: one query per member
MemberHits(objs, ray, t_min, t_max) ==
    [i \in 1..Len(objs) |-> Sphere_hit(objs[i], ray, t_min, t_max)]

\* closest.unwrap(): a panic when min_by returned None
UnwrapOrPanic(closest) ==
    IF IsSome(closest)
    THEN [panic |-> FALSE, val |-> Unwrap(closest)]
    ELSE [panic |-> TRUE, val |-> None]

HitList_hit(objs, ray, t_min, t_max) ==
    UnwrapOrPanic(MinBy(MemberHits(objs, ray, t_min, t_max)))

----------------------------------------------------------------------------
(* Materials.  rnd is the vector the material draws from the thread RNG:   *)
(* new_random_unit_vector() for Lambertian, new_random_in_unit_sphere()    *)
(* for Metal; Dialectric draws nothing.                                    *)

Lambertian(albedo) ==
    [kind |-> "Lambertian", albedo |-> albedo, fuzz |-> R(0),
     index_of_refraction |-> R(1)]

Metal(albedo, fuzz) ==
    [kind |-> "Metal", albedo |-> albedo, fuzz |-> fuzz,
     index_of_refraction |-> R(1)]

Dialectric(index_of_refraction) ==
    [kind |-> "Dialectric", albedo |-> COLOR_WHITE, fuzz |-> R(0),
     index_of_refraction |-> index_of_refraction]

ScatterResult(scattered, attenuation) ==
    [scattered |-> scattered, attenuation |-> attenuation]

Lambertian_scatter(self, r, rec, rnd) ==
    LET random_scatter_direction == VAdd(rec.normal, rnd)
        scatter_direction == IF near_zero(random_scatter_direction)
                             THEN rec.normal
                             ELSE random_scatter_direction
    IN  Some(ScatterResult(Ray(rec.p, scatter_direction), self.albedo))

\* variant: a direction along the surface still scatters
Metal_scatter_grazing(self, r, rec, rnd) ==
    LET reflected == reflect(unit_vector(r.dir), rec.normal)
        scattered == Ray(rec.p, VAdd(reflected, VScale(rnd, self.fuzz)))
    IN  IF RLe(R(0), dot(scattered.dir, rec.normal))
        THEN Some(ScatterResult(scattered, self.albedo))
        ELSE None

Metal_scatter(self, r, rec, rnd) ==
    LET reflected == reflect(unit_vector(r.dir), rec.normal)
        scattered == Ray(rec.p, VAdd(reflected, VScale(rnd, self.fuzz)))
    IN  IF RGt(dot(scattered.dir, rec.normal), R(0))
        THEN Some(ScatterResult(scattered, self.albedo))
        ELSE None

RefractionRatio(self, rec) ==
    IF rec.front_face THEN RDiv(R(1), self.index_of_refraction)
    ELSE self.index_of_refraction

CosTheta(r, rec) == RMin(dot(VNeg(unit_vector(r.dir)), rec.normal), R(1))

SinThetaSquared(r, rec) == RSub(R(1), RMul(CosTheta(r, rec), CosTheta(r, rec)))

Dialectric_scatter(self, r, rec) ==
    LET refraction_ratio == RefractionRatio(self, rec)
        unit_direction == unit_vector(r.dir)
        sin_theta == Sqrt(SinThetaSquared(r, rec))
        cannot_refract == RGt(RMul(refraction_ratio, sin_theta), R(1))
        direction == IF cannot_refract
                     THEN reflect(unit_direction, rec.normal)
                     ELSE refract(unit_direction, rec.normal, refraction_ratio)
    IN  Some(ScatterResult(Ray(rec.p, direction), COLOR_WHITE))

\* dynamic dispatch of rec.mat_ptr.scatter(r, rec)
scatter(self, r, rec, rnd) ==
    IF self.kind = "Lambertian" THEN Lambertian_scatter(self, r, rec, rnd)
    ELSE IF self.kind = "Metal" THEN Metal_scatter(self, r, rec, rnd)
    ELSE Dialectric_scatter(self, r, rec)

----------------------------------------------------------------------------
(* The background of Ray::color *)

Background(unit_direction) ==
    LET t == RMul(Rat(1, 2), RAdd(unit_direction.y, R(1)))
    IN  VAdd(VScale(COLOR_WHITE, RSub(R(1), t)),
             VScale(Vec3(Rat(1, 2), Rat(7, 10), R(1)), t))

T_MIN == Rat(1, 1000)

----------------------------------------------------------------------------
(* Bounds, and the inputs on which every square root of the model is      *)
(* rational                                                                *)

MaxObjects == 2
MaxDepth == 2
MaxNum == 1000
MaxDen == 25

\* the components of v are small enough for the integers of TLC
FitsNum(a) == IAbs(a.n) <= MaxNum /\ a.d <= MaxDen
FitsVec(v) == FitsNum(v.x) /\ FitsNum(v.y) /\ FitsNum(v.z)

ExactDir(ray) ==
    /\ FitsVec(ray.orig)
    /\ FitsVec(ray.dir)
    /\ IsSquare(length_squared(ray.dir))

ExactHit(objs, ray) ==
    \A i \in 1..Len(objs) :
        \/ RLt(Discriminant(objs[i], ray), R(0))
        \/ IsSquare(Discriminant(objs[i], ray))

ExactScatter(mat, r, rec) ==
    IF mat.kind = "Lambertian" THEN TRUE
    ELSE IF mat.kind = "Metal" THEN ExactDir(r)
    ELSE /\ ExactDir(r)
         /\ IsSquare(SinThetaSquared(r, rec))
         /\ LET ratio == RefractionRatio(mat, rec)
                u == unit_vector(r.dir)
                perp == VScale(VAdd(u, VScale(rec.normal, CosTheta(r, rec))), ratio)
            IN  \/ RGt(RMul(ratio, Sqrt(SinThetaSquared(r, rec))), R(1))
                \/ IsSquare(RAbs(RSub(R(1), length_squared(perp))))

----------------------------------------------------------------------------
(* Inputs *)


Sphere(center, radius, mat_ptr) ==
    [center |-> center, radius |-> radius, mat_ptr |-> mat_ptr]

Grey == Vec3(Rat(1, 2), Rat(1, 2), Rat(1, 2))
Gold == Vec3(Rat(4, 5), Rat(3, 5), Rat(1, 5))

Spheres ==
    { Sphere(V(0, 0, 0), R(5), Lambertian(Grey)),
      Sphere(V(0, 0, 0), R(5), Metal(Gold, R(0))),
      Sphere(V(0, 0, 0), R(5), Dialectric(R(1))),
      Sphere(V(0, 0, 20), R(5), Metal(Gold, R(1))),
      Sphere(V(0, 0, 20), R(5), Dialectric(Rat(3, 2))) }

Rays ==
    { Ray(V(0, 0, 0 - 10), V(0, 0, 1)),     \* through both centres
      Ray(V(0, 0, 0 - 10), V(0, 0, 2)),     \* the same line, direction of length 2
      Ray(V(3, 0, 0 - 10), V(0, 0, 1)),     \* oblique hits
      Ray(V(5, 0, 0 - 10), V(0, 0, 1)),     \* tangent to the spheres
      Ray(V(0, 0, 0 - 10), V(0, 1, 0)),     \* straight up, misses
      Ray(V(0, 0, 0), V(0, 0, 1)),          \* from the centre of a sphere
      Ray(V(3, 0, 0), V(0, 0, 1)),          \* from inside, oblique exit
      Ray(V(0, 0, 10), V(0, 0, 1)) }        \* between the spheres

Intervals ==
    { <<T_MIN, INF>>, <<R(6), R(100)>>, <<R(16), INF>>, <<R(0 - 100), R(100)>> }

Depths == (0 - 1)..MaxDepth

\* outcomes of new_random_unit_vector(): unit vectors with components >= 0
RandomUnitVectors ==
    { V(1, 0, 0), V(0, 0, 1), Vec3(Rat(24, 25), R(0), Rat(7, 25)) }

\* outcomes of new_random_in_unit_sphere(): components in [0,1), length < 1
RandomInUnitSphere ==
    { V(0, 0, 0), Vec3(R(0), R(0), Rat(1, 2)) }

\* what the material's scatter draws from the RNG (a Dialectric draws nothing)
RandomFor(mat) ==
    IF mat.kind = "Lambertian" THEN RandomUnitVectors
    ELSE IF mat.kind = "Metal" THEN RandomInUnitSphere
    ELSE { V(0, 0, 0) }

----------------------------------------------------------------------------
(* State *)

VARIABLES
    objects,    \* HitList.objects
    pc,         \* where the caller or Ray::color stands
    call,       \* the arguments of the call in progress
    hitOut,     \* what HitList::hit and its members' hit returned
    scatOut,    \* what Material::scatter returned
    stack,      \* the activation records of Ray::color, outermost first
    rec,        \* the hit record of the innermost activation
    ret,        \* the value the last finished activation returned
    count,      \* numbers of recursive calls, hit queries, scatter queries
    trail       \* the RNG outcomes drawn so far by Ray::color

vars == <<objects, pc, call, hitOut, scatOut, stack, rec, ret, count, trail>>

NoCall == [op |-> "none", ray |-> Ray(V(0, 0, 0), V(0, 0, 0)),
           t_min |-> R(0), t_max |-> R(0), depth |-> 0]
NoHitOut == [members |-> <<>>, closest |-> [panic |-> FALSE, val |-> None]]
NoCount == [calls |-> 0, hits |-> 0, scatters |-> 0]

Init ==
    /\ objects = <<>>
    /\ pc = "idle"
    /\ call = NoCall
    /\ hitOut = NoHitOut
    /\ scatOut = None
    /\ stack = <<>>
    /\ rec = None
    /\ ret = None
    /\ count = NoCount
    /\ trail = <<>>

Top == stack[Len(stack)]

----------------------------------------------------------------------------
(* Operations of the caller *)

\* HitList::add
Add(obj) ==
    /\ pc = "idle"
    /\ Len(objects) < MaxObjects
    /\ objects' = Append(objects, obj)
    /\ UNCHANGED <<pc, call, hitOut, scatOut, stack, rec, ret, count, trail>>

\* world.hit(ray, t_min, t_max) on the HitList
CallHit(ray, t_min, t_max) ==
    /\ pc = "idle"
    /\ ExactHit(objects, ray)
    /\ call' = [op |-> "hit", ray |-> ray, t_min |-> t_min, t_max |-> t_max,
                depth |-> 0]
    /\ \E h \in {HitList_hit(objects, ray, t_min, t_max)} :
          /\ hitOut' = [members |-> MemberHits(objects, ray, t_min, t_max),
                        closest |-> h]
          /\ pc' = IF h.panic THEN "panic" ELSE "hit_returned"
    /\ UNCHANGED <<objects, scatOut, stack, rec, ret, count, trail>>

\* rec.mat_ptr.scatter(ray, rec) on a record some member returned
CallScatter(i, rnd) ==
    /\ pc = "hit_returned"
    /\ IsSome(hitOut.members[i])
    /\ \E r \in {Unwrap(hitOut.members[i])} :
          /\ rnd \in RandomFor(r.mat_ptr)
          /\ ExactScatter(r.mat_ptr, call.ray, r)
          /\ scatOut' = Some([rec |-> r, rnd |-> rnd,
                              out |-> scatter(r.mat_ptr, call.ray, r, rnd)])
    /\ pc' = "scatter_returned"
    /\ UNCHANGED <<objects, call, hitOut, stack, rec, ret, count, trail>>

\* ray.color(world, depth): the outermost activation
CallColor(ray, depth) ==
    /\ pc = "idle"
    /\ call' = [op |-> "color", ray |-> ray, t_min |-> T_MIN, t_max |-> INF,
                depth |-> depth]
    /\ stack' = <<[ray |-> ray, depth |-> depth, attenuation |-> COLOR_BLACK]>>
    /\ pc' = "entry"
    /\ UNCHANGED <<objects, hitOut, scatOut, rec, ret, count, trail>>

\* the caller drops the results
Finish ==
    /\ pc \in {"hit_returned", "scatter_returned", "done"}
    /\ pc' = "idle"
    /\ call' = NoCall
    /\ hitOut' = NoHitOut
    /\ scatOut' = None
    /\ stack' = <<>>
    /\ rec' = None
    /\ ret' = None
    /\ count' = NoCount
    /\ trail' = <<>>
    /\ UNCHANGED objects

----------------------------------------------------------------------------
(* Ray::color, one activation at a time *)

\* the innermost activation returns v to its caller
Return(v) ==
    /\ stack' = SubSeq(stack, 1, Len(stack) - 1)
    /\ ret' = Some(v)
    /\ rec' = None
    /\ pc' = IF Len(stack) = 1 THEN "done" ELSE "return"

\* variant: the budget is exhausted only below zero
ColorEntry_belowZero ==
    /\ pc = "entry"
    /\ IF Top.depth < 0
       THEN /\ Return(COLOR_BLACK)
            /\ UNCHANGED <<objects, call, hitOut, scatOut, count, trail>>
       ELSE /\ ExactDir(Top.ray)
            /\ pc' = "hit"
            /\ UNCHANGED <<objects, call, hitOut, scatOut, stack, rec, ret,
                           count, trail>>

\* lines 225-229: the depth test and unit_direction
ColorEntry ==
    /\ pc = "entry"
    /\ IF Top.depth <= 0
       THEN /\ Return(COLOR_BLACK)
            /\ UNCHANGED <<objects, call, hitOut, scatOut, count, trail>>
       ELSE /\ ExactDir(Top.ray)
            /\ pc' = "hit"
            /\ UNCHANGED <<objects, call, hitOut, scatOut, stack, rec, ret,
                           count, trail>>

\* line 230 and the None arm: world.hit(&self, 0.001, INF)
ColorHit ==
    /\ pc = "hit"
    /\ ExactHit(objects, Top.ray)
    /\ count' = [count EXCEPT !.hits = @ + 1]
    /\ \E h \in {HitList_hit(objects, Top.ray, T_MIN, INF)} :
          IF h.panic
          THEN /\ pc' = "panic"
               /\ UNCHANGED <<stack, rec, ret>>
          ELSE IF IsSome(h.val)
          THEN /\ pc' = "scatter"
               /\ rec' = h.val
               /\ UNCHANGED <<stack, ret>>
          ELSE Return(Background(unit_vector(Top.ray.dir)))
    /\ UNCHANGED <<objects, call, hitOut, scatOut, trail>>

\* variant: the recursive call keeps the budget
NextDepth_same(depth) == depth

\* line 234: depth - 1
NextDepth(depth) == depth - 1

\* lines 232-236: scatter, then the recursive call or black
ColorScatter(rnd) ==
    /\ pc = "scatter"
    /\ \E r \in {Unwrap(rec)} :
          /\ rnd \in RandomFor(r.mat_ptr)
          /\ ExactScatter(r.mat_ptr, Top.ray, r)
          /\ \E out \in {scatter(r.mat_ptr, Top.ray, r, rnd)} :
                IF IsSome(out)
                THEN /\ stack' = Append(
                            [stack EXCEPT ![Len(stack)].attenuation =
                                              Unwrap(out).attenuation],
                            [ray |-> Unwrap(out).scattered,
                             depth |-> NextDepth(Top.depth),
                             attenuation |-> COLOR_BLACK])
                     /\ count' = [count EXCEPT !.scatters = @ + 1,
                                               !.calls = @ + 1]
                     /\ rec' = None
                     /\ pc' = "entry"
                     /\ UNCHANGED ret
                ELSE /\ Return(COLOR_BLACK)
                     /\ count' = [count EXCEPT !.scatters = @ + 1]
    /\ trail' = Append(trail, rnd)
    /\ UNCHANGED <<objects, call, hitOut, scatOut>>

\* variant: the attenuation is dropped
ColorReturn_noAttenuation ==
    /\ pc = "return"
    /\ Return(Unwrap(ret))
    /\ UNCHANGED <<objects, call, hitOut, scatOut, count, trail>>

\* line 234: out.attenuation * (the value the recursive call returned)
ColorReturn ==
    /\ pc = "return"
    /\ Return(VMul(Top.attenuation, Unwrap(ret)))
    /\ UNCHANGED <<objects, call, hitOut, scatOut, count, trail>>

----------------------------------------------------------------------------

Next ==
    \/ \E obj \in Spheres : Add(obj)
    \/ \E ray \in Rays, iv \in Intervals : CallHit(ray, iv[1], iv[2])
    \/ \E i \in 1..MaxObjects, rnd \in RandomUnitVectors \cup RandomInUnitSphere :
          i <= Len(objects) /\ CallScatter(i, rnd)
    \/ \E ray \in Rays, depth \in Depths : CallColor(ray, depth)
    \/ Finish
    \/ ColorEntry
    \/ ColorHit
    \/ \E rnd \in RandomUnitVectors \cup RandomInUnitSphere : ColorScatter(rnd)
    \/ ColorReturn

Spec == Init /\ [][Next]_vars

----------------------------------------------------------------------------
(* Properties *)

Members == hitOut.members
Hits == {i \in 1..Len(Members) : IsSome(Members[i])}
HitAt(i) == Unwrap(Members[i])
Closest == hitOut.closest
Scat == Unwrap(scatOut)

\* (point - center) / radius of the record of member i
Outward(i) ==
    VDiv(VSub(HitAt(i).p, objects[i].center), objects[i].radius)

\* the origin of the ray lies strictly inside member i
Inside(i) ==
    RLt(length_squared(VSub(call.ray.orig, objects[i].center)),
        RMul(objects[i].radius, objects[i].radius))

InRange(t) == RLe(call.t_min, t) /\ RLe(t, call.t_max)

\* world.hit has just returned or panicked
HitDone == call.op = "hit" /\ pc \in {"hit_returned", "panic"}

\* C1: Ray::color entered with depth <= 0 returns black at once: the
\* activation ends with the value (0,0,0) and neither the scene's hit nor a
\* material's scatter has been queried by it.
C1_ExhaustedBudgetIsBlack ==
    [][(pc = "entry" /\ Top.depth <= 0)
         => /\ ret' = Some(COLOR_BLACK)
            /\ pc' \in {"return", "done"}
            /\ count'.hits = count.hits
            /\ count'.scatters = count.scatters]_vars

C1_Witness ==
    /\ pc = "done"
    /\ call.op = "color"
    /\ call.depth <= 0
    /\ objects = <<>>
    /\ ret = Some(COLOR_BLACK)
    /\ count = NoCount

\* C2: whatever the number of members (zero included), when no member's hit
\* returns a record HitList::hit returns None and does not fail.
C2_NoMemberHitGivesNone ==
    (HitDone /\ Hits = {})
        => (~Closest.panic /\ Closest.val = None)

\* C3: the normal of every record Sphere::hit returns points against the
\* ray: dot(ray.direction, record.normal) <= 0.
C3_NormalAgainstRay ==
    HitDone
        => \A i \in Hits : RLe(dot(call.ray.dir, HitAt(i).normal), R(0))

\* what C4 says of every record: front_face holds exactly when
\* dot(ray.direction, outward_normal) < 0, and the normal is the outward
\* normal (point - center) / radius whatever front_face is
FrontFaceAndNormal(i) ==
    /\ HitAt(i).front_face <=> RLt(dot(call.ray.dir, Outward(i)), R(0))
    /\ HitAt(i).normal = Outward(i)

\* what C4 says of a ray that starts inside the sphere: the farther root,
\* front_face = false and a normal pointing away from the centre
FartherRootFromInside(i) ==
    /\ HitAt(i).t = SecondRoot(objects[i], call.ray)
    /\ ~HitAt(i).front_face
    /\ RGt(dot(HitAt(i).normal, VSub(HitAt(i).p, objects[i].center)), R(0))

\* C4 as stated: for every record Sphere::hit returns, front_face holds
\* exactly when dot(ray.direction, outward_normal) < 0 and the normal is the
\* outward normal; in particular a ray starting inside the sphere gets the
\* farther root with front_face = false and a normal pointing away from the
\* centre (whatever the interval).
C4_AsStated ==
    HitDone
        => \A i \in Hits :
              /\ FrontFaceAndNormal(i)
              /\ Inside(i) => FartherRootFromInside(i)

\* C4 amended: the same, the part about a ray starting inside the sphere
\* being for intervals with t_min >= 0, which reject the negative nearer
\* root.
C4_FrontFaceAndOutwardNormal ==
    HitDone
        => \A i \in Hits :
              /\ FrontFaceAndNormal(i)
              /\ (Inside(i) /\ RLe(R(0), call.t_min)) => FartherRootFromInside(i)

C4_Witness ==
    /\ pc = "hit_returned"
    /\ \E i \in Hits :
          /\ Inside(i)
          /\ RLe(R(0), call.t_min)
          /\ ~HitAt(i).front_face
          /\ HitAt(i).normal = Outward(i)
          /\ RGt(dot(call.ray.dir, HitAt(i).normal), R(0))

Injections(n) == {f \in [1..n -> 1..n] : \A i, j \in 1..n : f[i] = f[j] => i = j}

\* the scene with its members added in the order f
Reordered(f) == [i \in 1..Len(objects) |-> objects[f[i]]]

\* C5: when at least one member is hit within [t_min, t_max], HitList::hit
\* has queried every member with the same interval and returns a record
\* whose t is the least t of the members' records, in whatever order the
\* members were added.
C5_ClosestOfAllMembers ==
    (HitDone /\ Hits # {})
        => /\ ~Closest.panic
           /\ IsSome(Closest.val)
           /\ Len(Members) = Len(objects)
           /\ \A i \in 1..Len(objects) :
                 Members[i] = Sphere_hit(objects[i], call.ray, call.t_min, call.t_max)
           /\ \E i \in Hits : Unwrap(Closest.val).t = HitAt(i).t
           /\ \A i \in Hits : RLe(Unwrap(Closest.val).t, HitAt(i).t)
           /\ \A f \in Injections(Len(objects)) :
                 LET other == HitList_hit(Reordered(f), call.ray,
                                          call.t_min, call.t_max)
                 IN  /\ ~other.panic
                     /\ IsSome(other.val)
                     /\ Unwrap(other.val).t = Unwrap(Closest.val).t

C5_Witness ==
    /\ pc = "hit_returned"
    /\ Len(objects) = 2
    /\ Hits = {1, 2}
    /\ RLt(HitAt(2).t, HitAt(1).t)
    /\ Unwrap(Closest.val).t = HitAt(2).t

\* C6: a Dialectric of index 1.0 scatters every record of Sphere::hit, front
\* face or back face, along the unit direction of the incoming ray.
C6_UnitIndexGoesStraight ==
    (/\ pc = "scatter_returned"
     /\ Scat.rec.mat_ptr.kind = "Dialectric"
     /\ Scat.rec.mat_ptr.index_of_refraction = R(1))
        => /\ IsSome(Scat.out)
           /\ Unwrap(Scat.out).scattered.dir = unit_vector(call.ray.dir)

\* a t^2 + 2 half_b t + c of member i, the quadratic Sphere::hit solves
Quadratic(i, t) ==
    LET oc == VSub(call.ray.orig, objects[i].center)
        a == dot(call.ray.dir, call.ray.dir)
        half_b == dot(oc, call.ray.dir)
        c == RSub(dot(oc, oc), RMul(objects[i].radius, objects[i].radius))
    IN  RAdd(RAdd(RMul(a, RMul(t, t)), RMul(R(2), RMul(half_b, t))), c)

\* C7: Sphere::hit returns None when the discriminant is negative; otherwise
\* the smaller root if it lies in [t_min, t_max], else the larger root if
\* that does, else None.  So a returned t lies in [t_min, t_max], is a root
\* of the quadratic and no root in the interval is smaller.
C7_RootSelection ==
    HitDone
        => \A i \in 1..Len(objects) :
              IF RLt(Discriminant(objects[i], call.ray), R(0))
              THEN Members[i] = None
              ELSE LET r1 == FirstRoot(objects[i], call.ray)
                       r2 == SecondRoot(objects[i], call.ray)
                   IN  /\ RLe(r1, r2)
                       /\ Quadratic(i, r1) = R(0)
                       /\ Quadratic(i, r2) = R(0)
                       /\ IsSome(Members[i]) <=> (InRange(r1) \/ InRange(r2))
                       /\ IsSome(Members[i])
                             => /\ HitAt(i).t = IF InRange(r1) THEN r1 ELSE r2
                                /\ InRange(HitAt(i).t)
                                /\ Quadratic(i, HitAt(i).t) = R(0)
                                /\ \A r \in {r1, r2} :
                                      InRange(r) => RLe(HitAt(i).t, r)

C7_Witness ==
    /\ pc = "hit_returned"
    /\ \E i \in Hits :
          /\ RLt(FirstRoot(objects[i], call.ray), call.t_min)
          /\ RLt(FirstRoot(objects[i], call.ray), SecondRoot(objects[i], call.ray))
          /\ HitAt(i).t = SecondRoot(objects[i], call.ray)

\* white*(1-t) + (0.5,0.7,1.0)*t with t = 0.5*(unit_direction.y + 1)
Gradient(ray) ==
    LET t == RMul(Rat(1, 2), RAdd(unit_vector(ray.dir).y, R(1)))
    IN  VAdd(VScale(V(1, 1, 1), RSub(R(1), t)),
             VScale(Vec3(Rat(1, 2), Rat(7, 10), R(1)), t))

\* the colour of ray with budget depth, the k-th RNG outcome of the trail
\* being the next one drawn
RECURSIVE ColorOf(_, _, _)
ColorOf(ray, depth, k) ==
    IF depth <= 0 THEN V(0, 0, 0)
    ELSE LET h == HitList_hit(objects, ray, T_MIN, INF).val
         IN  IF ~IsSome(h) THEN Gradient(ray)
             ELSE LET out == scatter(Unwrap(h).mat_ptr, ray, Unwrap(h), trail[k])
                  IN  IF ~IsSome(out) THEN V(0, 0, 0)
                      ELSE VMul(Unwrap(out).attenuation,
                                ColorOf(Unwrap(out).scattered, depth - 1, k + 1))

\* C8: with depth > 0 Ray::color returns the background gradient when the
\* scene's hit over (0.001, infinity) returns None, black when the material
\* of the hit does not scatter, and otherwise the attenuation times,
\* component by component, color(scattered_ray, scene, depth - 1).
C8_ColorCases ==
    (pc = "done" /\ call.op = "color" /\ call.depth > 0)
        => ret = Some(ColorOf(call.ray, call.depth, 1))

C8_Witness ==
    /\ pc = "done"
    /\ call.op = "color"
    /\ call.depth > 1
    /\ count.calls >= 1
    /\ count.hits = count.calls + 1
    /\ ret # Some(COLOR_BLACK)
    /\ ret # Some(Gradient(call.ray))

Budget == IF call.depth > 0 THEN call.depth ELSE 0

\* the number of steps Ray::color can still take
Measure ==
    IF pc \in {"entry", "hit", "scatter"}
    THEN 4 * (IF Top.depth > 0 THEN Top.depth ELSE 0) + Len(stack)
           - (IF pc = "entry" THEN 0 ELSE IF pc = "hit" THEN 1 ELSE 2)
    ELSE IF pc = "return" THEN Len(stack)
    ELSE 0

BudgetBounds ==
    call.op = "color"
        => /\ \A k \in 1..Len(stack) : stack[k].depth = call.depth - (k - 1)
           /\ Len(stack) <= Budget + 1
           /\ count.calls <= Budget
           /\ count.hits <= Budget
           /\ count.scatters <= Budget

\* C9: each recursive call of Ray::color has a budget smaller by exactly 1,
\* so a call with budget d makes at most d hit queries and at most d nested
\* calls and ends after a bounded number of steps, whatever the scene and
\* whatever the materials answer.
C9_BudgetBoundsRecursion ==
    [][/\ BudgetBounds'
       /\ pc \in {"entry", "hit", "scatter", "return"}
             => (Measure' < Measure /\ Measure' >= 0)]_vars

C9_Witness ==
    /\ pc = "done"
    /\ call.op = "color"
    /\ call.depth >= 2
    /\ count.calls = call.depth
    /\ count.hits = call.depth
    /\ count.scatters = call.depth

IsPolishedMetal(mat) == mat.kind = "Metal" /\ mat.fuzz = R(0)

\* C10: a Metal of fuzz 0 scatters a record of Sphere::hit exactly when the
\* record's front_face is true; a back-face hit and a grazing hit
\* (dot(direction, normal) = 0) are absorbed, and Ray::color then returns
\* black without a recursive call.
C10_PolishedMetalScattersFrontOnly ==
    /\ (pc = "scatter_returned" /\ IsPolishedMetal(Scat.rec.mat_ptr))
          => /\ IsSome(Scat.out) <=> Scat.rec.front_face
             /\ RLe(R(0), dot(call.ray.dir, Scat.rec.normal))
                   => Scat.out = None
    /\ (pc = "done" /\ call.op = "color" /\ call.depth > 0)
          => LET h == HitList_hit(objects, call.ray, T_MIN, INF).val
             IN  (/\ IsSome(h)
                  /\ IsPolishedMetal(Unwrap(h).mat_ptr)
                  /\ ~Unwrap(h).front_face)
                    => (ret = Some(COLOR_BLACK) /\ count.calls = 0)

C10_Witness ==
    /\ pc = "scatter_returned"
    /\ IsPolishedMetal(Scat.rec.mat_ptr)
    /\ ~Scat.rec.front_face
    /\ dot(call.ray.dir, Scat.rec.normal) = R(0)
    /\ Scat.out = None

====
